---- MODULE Spec2Model ----
(***************************************************************************)
(* Model of the watch-list navigation shell (src/components/Layout.tsx)    *)
(* and of the constant tables it consumes (constants.tsx, kept in          *)
(* src/unnamed/part_000).                                                  *)
(*                                                                         *)
(* JavaScript strings that the code inspects character by character        *)
(* (titles, genres, the typed query, the query part of a URL) are tuples   *)
(* of one-character strings.  Strings the code only compares for equality  *)
(* (ids, route paths, colours, status values) are TLA+ strings.            *)
(***************************************************************************)
EXTENDS Integers, Sequences, FiniteSets, TLC

VARIABLES
    items,          \* Layout prop `items`: the collection owned by the application
    categories,     \* the module-level CATEGORIES array
    searchQuery,    \* useState('')   Layout.tsx:89
    searchActive,   \* useState(false) Layout.tsx:90
    location,       \* useLocation(): [pathname, search]
    isVisible,      \* ScrollToTop's useState(false) Layout.tsx:39
    calls           \* calls the last handler made on its collaborators
                    \* (navigate, onSelectItem, window.scrollTo)

vars == <<items, categories, searchQuery, searchActive, location, isVisible, calls>>

----------------------------------------------------------------------------
(* Bounds of the model *)

MaxItems == 6       \* longest generated item collection
MaxQueryLen == 2    \* longest typed query

\* Characters a typed query is made of: a blank, a lower-case and an upper-case letter.
QueryChars == {" ", "e", "E"}

\* The values one keystroke in the input turns the current value into: a
\* character typed at the end, or the last character deleted.
Keystrokes(value) ==
    {Append(value, c) : c \in IF Len(value) < MaxQueryLen THEN QueryChars ELSE {}}
    \cup (IF value = <<>> THEN {} ELSE {SubSeq(value, 1, Len(value) - 1)})

----------------------------------------------------------------------------
(* String primitives of the JavaScript runtime, as the code uses them *)

UpperLetters == <<"A","B","C","D","E","F","G","H","I","J","K","L","M",
                  "N","O","P","Q","R","S","T","U","V","W","X","Y","Z">>
LowerLetters == <<"a","b","c","d","e","f","g","h","i","j","k","l","m",
                  "n","o","p","q","r","s","t","u","v","w","x","y","z">>

LowerChar(c) ==
    IF \E k \in 1..Len(UpperLetters) : UpperLetters[k] = c
    THEN LowerLetters[CHOOSE k \in 1..Len(UpperLetters) : UpperLetters[k] = c]
    ELSE c

\* String.prototype.toLowerCase
toLowerCase(s) == [k \in 1..Len(s) |-> LowerChar(s[k])]

WhiteSpace == {" ", "\t", "\n", "\r"}

RECURSIVE trimStart(_)
trimStart(s) ==
    IF s # <<>> /\ Head(s) \in WhiteSpace THEN trimStart(Tail(s)) ELSE s

RECURSIVE trimEnd(_)
trimEnd(s) ==
    IF s # <<>> /\ s[Len(s)] \in WhiteSpace
    THEN trimEnd(SubSeq(s, 1, Len(s) - 1))
    ELSE s

\* String.prototype.trim
trim(s) == trimEnd(trimStart(s))

\* String.prototype.includes
includes(s, sub) ==
    \E k \in 0..(Len(s) - Len(sub)) : SubSeq(s, k + 1, k + Len(sub)) = sub

\* Array.prototype.slice(from, to) for 0 <= from <= to
slice(seq, from, to) ==
    SubSeq(seq, from + 1, IF to < Len(seq) THEN to ELSE Len(seq))

UnreservedChars ==
    {UpperLetters[k] : k \in 1..26} \cup {LowerLetters[k] : k \in 1..26}
    \cup {"0","1","2","3","4","5","6","7","8","9","-","_",".","!","~","*","'","(",")"}

\* The percent-escape of the reserved one-byte characters that can be typed here.
PercentEscape(c) ==
    CASE c = " " -> <<"%","2","0">>
      [] c = "\t" -> <<"%","0","9">>
      [] c = "\n" -> <<"%","0","A">>
      [] c = "\r" -> <<"%","0","D">>

RECURSIVE encodeURIComponent(_)
encodeURIComponent(s) ==
    IF s = <<>> THEN <<>>
    ELSE (IF Head(s) \in UnreservedChars THEN <<Head(s)>> ELSE PercentEscape(Head(s)))
         \o encodeURIComponent(Tail(s))

----------------------------------------------------------------------------
(* constants.tsx *)

CATEGORIES == <<
    [id |-> "kdrama", name |-> "K-DRAMA", color |-> "#A42EFF",
     gradient |-> "from-[#1a0a2e] to-[#A42EFF]", path |-> "/kdrama"],
    [id |-> "kmovie", name |-> "K-MOVIE", color |-> "#A42EFF",
     gradient |-> "from-[#1a0a2e] to-[#A42EFF]", path |-> "/kmovie"],
    [id |-> "hdrama", name |-> "H-DRAMA", color |-> "#5045D9",
     gradient |-> "from-[#0a0a2e] to-[#5045D9]", path |-> "/hdrama"],
    [id |-> "hmovie", name |-> "H-MOVIE", color |-> "#5045D9",
     gradient |-> "from-[#0a0a2e] to-[#5045D9]", path |-> "/hmovie"],
    [id |-> "bdrama", name |-> "B-DRAMA", color |-> "#E81717",
     gradient |-> "from-[#2e0a0a] to-[#E81717]", path |-> "/bdrama"],
    [id |-> "bmovie", name |-> "B-MOVIE", color |-> "#E81717",
     gradient |-> "from-[#2e0a0a] to-[#E81717]", path |-> "/bmovie"],
    [id |-> "cdrama", name |-> "C-DRAMA", color |-> "#F7D625",
     gradient |-> "from-[#2e2a0a] to-[#F7D625]", path |-> "/cdrama"],
    [id |-> "anime", name |-> "ANIME", color |-> "#FF7DE8",
     gradient |-> "from-[#2e0a26] to-[#FF7DE8]", path |-> "/anime"] >>

\* The entries of GENRE_OPTIONS that the items below use.
Romance == <<"R","o","m","a","n","c","e">>
Drama == <<"D","r","a","m","a">>
Comedy == <<"C","o","m","e","d","y">>
Action == <<"A","c","t","i","o","n">>
Fantasy == <<"F","a","n","t","a","s","y">>
SciFi == <<"S","c","i","-","F","i">>
Adventure == <<"A","d","v","e","n","t","u","r","e">>
Supernatural == <<"S","u","p","e","r","n","a","t","u","r","a","l">>

STATUS_OPTIONS == <<
    [value |-> "watching", label |-> "Watching", color |-> "#4CAF50"],
    [value |-> "completed", label |-> "Completed", color |-> "#2196F3"],
    [value |-> "plan-to-watch", label |-> "Plan to Watch", color |-> "#FFC107"],
    [value |-> "on-hold", label |-> "On Hold", color |-> "#9E9E9E"],
    [value |-> "dropped", label |-> "Dropped", color |-> "#F44336"] >>

\* A seed dataset whose second entry reuses the id of the first
SeedWithRepeatedId == <<
    [id |-> "kd001", category |-> "kdrama", title |-> <<"L","o","v","e">>,
     year |-> 2024, poster |-> "", status |-> "completed", genres |-> <<Romance>>],
    [id |-> "kd001", category |-> "hmovie", title |-> <<"D","u","n","e">>,
     year |-> 2024, poster |-> "", status |-> "completed", genres |-> <<SciFi>>] >>

INITIAL_DATA == <<
    [id |-> "kd001", category |-> "kdrama",
     title |-> <<"L","o","v","e","l","y"," ","R","u","n","n","e","r">>,
     year |-> 2024, poster |-> "https://picsum.photos/seed/lovely/500/750",
     myRating |-> 10, episodes |-> 16, episodesWatched |-> 16,
     status |-> "completed", genres |-> <<Romance, Fantasy, Comedy>>,
     watchLink |-> "https://example.com/watch/lovely-runner",
     trailerUrl |-> "https://www.youtube.com/watch?v=8M7Y703sZSc",
     dateAdded |-> "2024-12-15", lastUpdated |-> "2024-12-16", favorite |-> TRUE],
    [id |-> "hm001", category |-> "hmovie",
     title |-> <<"D","u","n","e",":"," ","P","a","r","t"," ","T","w","o">>,
     year |-> 2024, poster |-> "https://picsum.photos/seed/dune/500/750",
     myRating |-> 9, episodes |-> 1, episodesWatched |-> 1,
     status |-> "completed", genres |-> <<SciFi, Adventure, Drama>>,
     watchLink |-> "https://example.com/watch/dune-2",
     dateAdded |-> "2024-12-10", lastUpdated |-> "2024-12-12", favorite |-> TRUE],
    [id |-> "ani001", category |-> "anime",
     title |-> <<"J","u","j","u","t","s","u"," ","K","a","i","s","e","n">>,
     year |-> 2023, poster |-> "https://picsum.photos/seed/jjk/500/750",
     myRating |-> 9, episodes |-> 24, episodesWatched |-> 24,
     status |-> "completed", genres |-> <<Action, Fantasy, Supernatural>>,
     watchLink |-> "https://example.com/watch/jujutsu-kaisen",
     dateAdded |-> "2024-11-20", lastUpdated |-> "2024-11-25", favorite |-> TRUE],
    [id |-> "cd001", category |-> "cdrama",
     title |-> <<"L","o","v","e"," ","B","e","t","w","e","e","n"," ","F","a","i","r","y"," ","a","n","d"," ","D","e","v","i","l">>,
     year |-> 2022, poster |-> "https://picsum.photos/seed/fairy/500/750",
     myRating |-> 8, episodes |-> 36, episodesWatched |-> 36,
     status |-> "completed", genres |-> <<Romance, Fantasy>>,
     watchLink |-> "https://example.com/watch/fairy-devil",
     dateAdded |-> "2024-10-05", lastUpdated |-> "2024-10-06", favorite |-> FALSE] >>

----------------------------------------------------------------------------
(* Item collections the application can hand to Layout *)

ItemIds == <<"w1", "w2", "w3", "w4", "w5", "w6", "w7", "w8", "w9">>

\* Three kinds of generated item: a title holding the letter once before a
\* blank and once after it, a title ending in the letter, and a title without
\* the letter whose genre and category do hold it.
Templates == {
    [title |-> <<"L","e"," ","e">>, category |-> "kdrama", genres |-> <<Drama>>],
    [title |-> <<"L","e">>, category |-> "hmovie", genres |-> <<Action>>],
    [title |-> <<"D","v">>, category |-> "anime", genres |-> <<Romance>>] }

WatchItem(k, t) ==
    [id |-> ItemIds[k], category |-> t.category, title |-> t.title,
     year |-> 2024, poster |-> "https://picsum.photos/seed/w/500/750",
     myRating |-> 0, episodes |-> 1, episodesWatched |-> 0,
     status |-> "plan-to-watch", genres |-> t.genres,
     dateAdded |-> "2024-12-23", lastUpdated |-> "2024-12-23", favorite |-> FALSE]

\* Every collection of at most MaxItems generated items, and the seed dataset.
Collections ==
    {[k \in 1..n |-> WatchItem(k, f[k])] :
        n \in 0..MaxItems, f \in [1..MaxItems -> Templates]}
    \cup {INITIAL_DATA}

LongTitle == CHOOSE t \in Templates : Len(t.title) = 4
ShortTitle == CHOOSE t \in Templates : t.category = "hmovie"
NoLetter == CHOOSE t \in Templates : t.category = "anime"

\* The collections the interactive specification starts from.
ShellCollections == {
    INITIAL_DATA,
    [k \in 1..MaxItems |-> WatchItem(k, LongTitle)],
    <<WatchItem(1, ShortTitle), WatchItem(2, NoLetter), WatchItem(3, LongTitle)>> }

\* Routes the router can be sent to: the Home, category and Admin links of the
\* navigation bar, and a path no route is registered for.
LinkPaths == {"/", "/admin", "/nowhere"} \cup {CATEGORIES[k].path : k \in 1..Len(CATEGORIES)}

\* window.pageYOffset values around the threshold of ScrollToTop
ScrollOffsets == {0, 300, 301}

----------------------------------------------------------------------------
(* Layout: values derived on every render *)

Undefined == [type |-> "undefined"]

DefaultThemeColor == "#A42EFF"

\* Array.prototype.find: the first category on the path, or undefined
currentCategoryOf(cats, pathname) ==
    LET isRoute(cat) == pathname = cat.path
        hits == SelectSeq(cats, isRoute)
    IN  IF hits = <<>> THEN Undefined ELSE Head(hits)

\* themeColor that falls back to the last category's colour instead of the
\* fixed default
themeColorNoDefault(cats, pathname) ==
    LET cat == currentCategoryOf(cats, pathname)
    IN  IF cat = Undefined THEN cats[Len(cats)].color ELSE cat.color

themeColorOf(cats, pathname) ==
    LET cat == currentCategoryOf(cats, pathname)
    IN  IF cat = Undefined THEN DefaultThemeColor
        ELSE IF cat.color = "" THEN DefaultThemeColor
        ELSE cat.color

currentCategory == currentCategoryOf(categories, location.pathname)
themeColor == themeColorOf(categories, location.pathname)

PreviewLimit == 5

\* searchPreview without the early return for a blank query
searchPreviewUnguarded(its, query) ==
    LET titleHasQuery(item) ==
            includes(toLowerCase(item.title), toLowerCase(query))
    IN  slice(SelectSeq(its, titleHasQuery), 0, 5)

\* searchPreview that also searches the genres
searchPreviewWithGenres(its, query) ==
    IF trim(query) = <<>> THEN <<>>
    ELSE LET hasQuery(item) ==
                 \/ includes(toLowerCase(item.title), toLowerCase(query))
                 \/ \E g \in 1..Len(item.genres) :
                        includes(toLowerCase(item.genres[g]), toLowerCase(query))
         IN  slice(SelectSeq(its, hasQuery), 0, 5)

\* Array.prototype.filter is SelectSeq: it keeps the input order.
searchPreviewOf(its, query) ==
    IF trim(query) = <<>> THEN <<>>
    ELSE LET titleHasQuery(item) ==
                 includes(toLowerCase(item.title), toLowerCase(query))
         IN  slice(SelectSeq(its, titleHasQuery), 0, PreviewLimit)

searchPreview == searchPreviewOf(items, searchQuery)

\* What the "Search Preview Dropdown" block renders.
\* The dropdown rendered whenever the search is active, typed query or not
dropdownWheneverActive(active, query, preview) ==
    IF active
    THEN IF Len(preview) > 0
         THEN [shown |-> TRUE, kind |-> "list",
               entries |-> [k \in 1..Len(preview) |->
                               [key |-> preview[k].id, title |-> preview[k].title,
                                year |-> preview[k].year, poster |-> preview[k].poster]]]
         ELSE [shown |-> TRUE, kind |-> "No matches found", entries |-> <<>>]
    ELSE [shown |-> FALSE, kind |-> "none", entries |-> <<>>]

dropdownOf(active, query, preview) ==
    IF active /\ query # <<>>
    THEN IF Len(preview) > 0
         THEN [shown |-> TRUE, kind |-> "list",
               entries |-> [k \in 1..Len(preview) |->
                               [key |-> preview[k].id, title |-> preview[k].title,
                                year |-> preview[k].year, poster |-> preview[k].poster]]]
         ELSE [shown |-> TRUE, kind |-> "No matches found", entries |-> <<>>]
    ELSE [shown |-> FALSE, kind |-> "none", entries |-> <<>>]

dropdown == dropdownOf(searchActive, searchQuery, searchPreview)

----------------------------------------------------------------------------
(* Layout: event handlers *)

\* The URL handleSearch navigates to, as the router splits it at the "?".
\* A search URL built from the trimmed query
searchUrlTrimmed(query) ==
    [pathname |-> "/search",
     search |-> <<"?","q","=">> \o encodeURIComponent(trim(query))]

searchUrl(query) ==
    [pathname |-> "/search",
     search |-> <<"?","q","=">> \o encodeURIComponent(query)]

\* onClick of the search button
toggleSearch ==
    /\ searchActive' = ~searchActive
    /\ calls' = <<>>
    /\ UNCHANGED <<items, categories, searchQuery, location, isVisible>>

\* onChange of the input, which is rendered only while the search is active
onChange(value) ==
    /\ searchActive
    /\ searchQuery' = value
    /\ calls' = <<>>
    /\ UNCHANGED <<items, categories, searchActive, location, isVisible>>

\* onSubmit of the form, which is rendered only while the search is active
handleSearch ==
    /\ searchActive
    /\ IF trim(searchQuery) # <<>>
       THEN /\ calls' = <<[fn |-> "navigate", arg |-> searchUrl(searchQuery)]>>
            /\ location' = searchUrl(searchQuery)
            /\ searchActive' = FALSE
            /\ searchQuery' = <<>>
       ELSE /\ calls' = <<>>
            /\ UNCHANGED <<location, searchActive, searchQuery>>
    /\ UNCHANGED <<items, categories, isVisible>>

\* mousedown on the document, outside the search box
handleClickOutside ==
    /\ searchActive' = FALSE
    /\ calls' = <<>>
    /\ UNCHANGED <<items, categories, searchQuery, location, isVisible>>

\* Selecting an entry that also takes the entry out of the collection
selectItemRemoving(k) ==
    /\ dropdown.shown
    /\ k \in 1..Len(searchPreview)
    /\ calls' = <<[fn |-> "onSelectItem", arg |-> searchPreview[k].id]>>
    /\ searchActive' = FALSE
    /\ searchQuery' = <<>>
    /\ items' = LET kept(item) == item.id # searchPreview[k].id IN SelectSeq(items, kept)
    /\ UNCHANGED <<categories, location, isVisible>>

\* Selecting an entry that closes the search but keeps the typed query
selectItemKeepingQuery(k) ==
    /\ dropdown.shown
    /\ k \in 1..Len(searchPreview)
    /\ calls' = <<[fn |-> "onSelectItem", arg |-> searchPreview[k].id]>>
    /\ searchActive' = FALSE
    /\ UNCHANGED <<items, categories, searchQuery, location, isVisible>>

\* onClick of the k-th entry of the preview dropdown
selectItem(k) ==
    /\ dropdown.shown
    /\ k \in 1..Len(searchPreview)
    /\ calls' = <<[fn |-> "onSelectItem", arg |-> searchPreview[k].id]>>
    /\ searchActive' = FALSE
    /\ searchQuery' = <<>>
    /\ UNCHANGED <<items, categories, location, isVisible>>

\* A Link of the navigation bar is followed, or the router lands on another path.
routeChange(path) ==
    /\ location' = [pathname |-> path, search |-> <<>>]
    /\ calls' = <<>>
    /\ UNCHANGED <<items, categories, searchQuery, searchActive, isVisible>>

\* ScrollToTop: the window's scroll listener
toggleVisibility(pageYOffset) ==
    /\ isVisible' = (pageYOffset > 300)
    /\ calls' = <<>>
    /\ UNCHANGED <<items, categories, searchQuery, searchActive, location>>

\* ScrollToTop: onClick of the button, which takes pointer events only while visible
scrollToTop ==
    /\ isVisible
    /\ calls' = <<[fn |-> "scrollTo", arg |-> 0]>>
    /\ UNCHANGED <<items, categories, searchQuery, searchActive, location, isVisible>>

----------------------------------------------------------------------------
(* Specifications *)

InitShell ==
    /\ categories = CATEGORIES
    /\ searchQuery = <<>>
    /\ searchActive = FALSE
    /\ location = [pathname |-> "/", search |-> <<>>]
    /\ isVisible = FALSE
    /\ calls = <<>>

Init ==
    /\ items \in ShellCollections
    /\ InitShell

Next ==
    \/ toggleSearch
    \/ \E value \in Keystrokes(searchQuery) : onChange(value)
    \/ handleSearch
    \/ handleClickOutside
    \/ \E k \in 1..PreviewLimit : selectItem(k)
    \/ \E path \in LinkPaths : routeChange(path)
    \/ \E y \in ScrollOffsets : toggleVisibility(y)
    \/ scrollToTop

Spec == Init /\ [][Next]_vars

\* The search preview as a function of its inputs: the search box is open
\* over any generated collection, and every query is typed into the input.
InitSearch ==
    /\ items \in Collections
    /\ categories = CATEGORIES
    /\ searchQuery = <<>>
    /\ searchActive = TRUE
    /\ location = [pathname |-> "/", search |-> <<>>]
    /\ isVisible = FALSE
    /\ calls = <<>>

NextSearch == \E value \in Keystrokes(searchQuery) : onChange(value)

SpecSearch == InitSearch /\ [][NextSearch]_vars

----------------------------------------------------------------------------
(* Vocabulary of the properties *)

\* A query without a non-whitespace character.
IsBlank(query) == \A k \in 1..Len(query) : query[k] \in WhiteSpace

\* The matching rule: the title contains the trimmed query, case-insensitively.
TitleMatches(item, query) ==
    includes(toLowerCase(item.title), toLowerCase(trim(query)))

GenreMatches(item, query) ==
    \E g \in 1..Len(item.genres) :
        includes(toLowerCase(item.genres[g]), toLowerCase(trim(query)))

IsIn(preview, item) == \E j \in 1..Len(preview) : preview[j] = item

MatchCount == Cardinality({k \in 1..Len(items) : TitleMatches(items[k], searchQuery)})

Min(a, b) == IF a < b THEN a ELSE b

----------------------------------------------------------------------------
(* Properties of the search preview, checked under SpecSearch *)

\* C1: for every item collection, the search preview of a query that is empty
\* or all whitespace is the empty sequence.
C1_BlankQueryGivesEmptyPreview ==
    IsBlank(searchQuery) => searchPreview = <<>>

\* A whitespace-only query has been typed over a non-empty collection.
C1_Witness ==
    /\ searchActive
    /\ Len(searchQuery) = MaxQueryLen
    /\ IsBlank(searchQuery)
    /\ Len(items) = MaxItems
    /\ searchPreview = <<>>

\* C2: every item of the search preview has a title that contains the trimmed
\* query case-insensitively, and an item whose title does not contain it is
\* not in the preview, whatever its genres or category hold.
C2_PreviewOnlyTitleMatches ==
    LET preview == searchPreview
    IN  /\ \A j \in 1..Len(preview) : TitleMatches(preview[j], searchQuery)
        /\ \A k \in 1..Len(items) :
              ~TitleMatches(items[k], searchQuery) => ~IsIn(preview, items[k])

\* An upper-case query matched titles, while an item whose genre holds the
\* query and whose title does not was left out.
C2_Witness ==
    /\ searchQuery = <<"E">>
    /\ Len(searchPreview) > 0
    /\ \E k \in 1..Len(items) :
          /\ GenreMatches(items[k], searchQuery)
          /\ ~TitleMatches(items[k], searchQuery)
          /\ ~IsIn(searchPreview, items[k])

\* C3: the search preview never has more than 5 items, and when m items match
\* a non-blank query it has exactly min(5, m) items.
C3_PreviewHasMinFiveMatches ==
    /\ Len(searchPreview) <= 5
    /\ ~IsBlank(searchQuery) => Len(searchPreview) = Min(5, MatchCount)

\* C4: the search preview is a subsequence of the input: its items are input
\* items in increasing input position (so none appears twice), and for a
\* non-blank query every matching item that precedes a kept item is kept too.
C4_PreviewIsEarliestMatchesInOrder ==
    LET preview == searchPreview
        pos(j) == CHOOSE k \in 1..Len(items) : items[k] = preview[j]
    IN  /\ \A j \in 1..Len(preview) : \E k \in 1..Len(items) : items[k] = preview[j]
        /\ \A i, j \in 1..Len(preview) : i < j => pos(i) < pos(j)
        /\ ~IsBlank(searchQuery) =>
              \A j \in 1..Len(preview) : \A k \in 1..(pos(j) - 1) :
                  TitleMatches(items[k], searchQuery) => IsIn(preview, items[k])

\* C5: the search preview for a query equals the search preview for the
\* trimmed query.
C5_PreviewOfQueryIsPreviewOfTrimmed ==
    searchPreviewOf(items, searchQuery) = searchPreviewOf(items, trim(searchQuery))

----------------------------------------------------------------------------
(* Properties of the constant tables and of the shell, checked under Spec *)

RECURSIVE PercentEncoded(_)
\* The URL encoding of a typed query, built from its last character backwards:
\* a blank becomes %20, a letter stays.
PercentEncoded(query) ==
    IF query = <<>> THEN <<>>
    ELSE LET last == query[Len(query)]
         IN  PercentEncoded(SubSeq(query, 1, Len(query) - 1))
             \o (IF last = " " THEN <<"%","2","0">> ELSE <<last>>)

\* C6: on the path of a category the theme colour is that category's colour
\* ("/anime" gives "#FF7DE8"); on every other path it is "#A42EFF".
C6_ThemeColorFollowsPath ==
    /\ \A k \in 1..Len(CATEGORIES) :
          location.pathname = CATEGORIES[k].path => themeColor = CATEGORIES[k].color
    /\ (\A k \in 1..Len(CATEGORIES) : location.pathname # CATEGORIES[k].path)
          => themeColor = "#A42EFF"
    /\ location.pathname = "/anime" => themeColor = "#FF7DE8"

\* The router is on the anime route and the theme is the anime colour.
C6_Witness ==
    /\ location.pathname = "/anime"
    /\ currentCategory.id = "anime"
    /\ themeColor = "#FF7DE8"

\* C7: the seed dataset INITIAL_DATA, as the collection the shell is given,
\* has pairwise distinct ids, every category is the id of a category of
\* CATEGORIES, and every status is one of the five values of STATUS_OPTIONS:
\* watching, completed, plan-to-watch, on-hold, dropped.
C7_SeedDataIsWellFormed ==
    items = INITIAL_DATA =>
        /\ \A i, j \in 1..Len(items) : i # j => items[i].id # items[j].id
        /\ \A i \in 1..Len(items) :
              \E c \in 1..Len(CATEGORIES) : items[i].category = CATEGORIES[c].id
        /\ \A i \in 1..Len(items) :
              \E o \in 1..Len(STATUS_OPTIONS) : items[i].status = STATUS_OPTIONS[o].value
        /\ {STATUS_OPTIONS[o].value : o \in 1..Len(STATUS_OPTIONS)}
              = {"watching", "completed", "plan-to-watch", "on-hold", "dropped"}

\* The shell is showing the seed dataset with its four items.
C7_Witness ==
    /\ items = INITIAL_DATA
    /\ Len(items) = 4
    /\ searchActive

\* C8: no Layout event changes the item collection or the category registry.
C8_LayoutLeavesDataUnchanged ==
    [][items' = items /\ categories' = categories]_vars

\* A preview entry has been selected after scrolling and a route change.
C8_Witness ==
    /\ calls # <<>>
    /\ calls[1].fn = "onSelectItem"
    /\ isVisible
    /\ location.pathname # "/"
    /\ items # <<>>

\* C9: a submit with a blank query changes nothing and navigates nowhere; a
\* submit with a non-blank query navigates to "/search?q=" followed by the URL
\* encoding of the query as typed, and leaves the search inactive and the
\* query empty.
C9_SubmitNavigatesOnlyWhenNotBlank ==
    [][handleSearch =>
        IF IsBlank(searchQuery)
        THEN /\ calls' = <<>>
             /\ location' = location
             /\ searchActive' = searchActive
             /\ searchQuery' = searchQuery
        ELSE /\ Len(calls') = 1
             /\ calls'[1].fn = "navigate"
             /\ calls'[1].arg.pathname = "/search"
             /\ calls'[1].arg.search = <<"?","q","=">> \o PercentEncoded(searchQuery)
             /\ location' = calls'[1].arg
             /\ searchActive' = FALSE
             /\ searchQuery' = <<>>]_vars

\* A query typed with a leading blank has been submitted.
C9_Witness ==
    /\ calls # <<>>
    /\ calls[1].fn = "navigate"
    /\ location.pathname = "/search"
    /\ Len(location.search) > 6
    /\ SubSeq(location.search, 1, 6) = <<"?","q","=","%","2","0">>
    /\ ~searchActive
    /\ searchQuery = <<>>

\* C10: the preview dropdown is shown exactly when the search is active and
\* the typed query is non-empty; when shown it is the "No matches found" state
\* exactly when the search preview is empty, and otherwise it lists the
\* preview items in order; it is never anything else.
C10_DropdownReflectsPreview ==
    /\ dropdown.shown <=> (searchActive /\ Len(searchQuery) > 0)
    /\ dropdown.shown =>
          /\ (dropdown.kind = "No matches found") <=> (searchPreview = <<>>)
          /\ searchPreview # <<>> =>
                /\ dropdown.kind = "list"
                /\ Len(dropdown.entries) = Len(searchPreview)
                /\ \A k \in 1..Len(searchPreview) :
                      /\ dropdown.entries[k].key = searchPreview[k].id
                      /\ dropdown.entries[k].title = searchPreview[k].title
    /\ dropdown.kind \in {"list", "No matches found", "none"}

\* A non-blank query without a match is on screen as "No matches found".
C10_Witness ==
    /\ searchActive
    /\ ~IsBlank(searchQuery)
    /\ items # <<>>
    /\ searchPreview = <<>>
    /\ dropdown.shown
    /\ dropdown.kind = "No matches found"

\* C11: selecting an entry of the preview dropdown calls onSelectItem exactly
\* once, with the id of an item of the current collection whose title contains
\* the current query (case-insensitively), and leaves the search inactive and
\* the query empty; from an empty query the dropdown comes back only by typing
\* into a search that has been reopened; a click outside the search box only
\* makes the search inactive and leaves the typed query as it is.
C11_SelectClosesAndClearsClickOutsideOnlyCloses ==
    [][/\ (calls' # <<>> /\ calls'[1].fn = "onSelectItem") =>
            /\ Len(calls') = 1
            /\ \E k \in 1..Len(items) :
                  /\ items[k].id = calls'[1].arg
                  /\ includes(toLowerCase(items[k].title), toLowerCase(searchQuery))
            /\ searchActive /\ searchQuery # <<>>
            /\ searchActive' = FALSE
            /\ searchQuery' = <<>>
            /\ ~dropdown'.shown
       /\ (searchQuery = <<>> /\ dropdown'.shown) =>
            /\ searchActive
            /\ searchQuery' # <<>>
            /\ calls' = <<>>
       /\ handleClickOutside =>
            /\ searchActive' = FALSE
            /\ searchQuery' = searchQuery
            /\ location' = location
            /\ calls' = <<>>
      ]_vars

\* An entry has just been selected: onSelectItem holds the id of an item of
\* the collection, the search is closed and the dropdown is hidden.
C11_Witness ==
    /\ calls # <<>>
    /\ calls[1].fn = "onSelectItem"
    /\ \E k \in 1..Len(items) : items[k].id = calls[1].arg
    /\ ~searchActive
    /\ searchQuery = <<>>
    /\ ~dropdown.shown

====
